---- MODULE Spec2Model ----
(***************************************************************************)
(* Zenith: the page compiler (parse, split, runtime assembly, emit), the   *)
(* file-based route table of the batch build, and the request-time route   *)
(* resolver of the development server.                                     *)
(*                                                                         *)
(* Strings are TLA+ strings; the JavaScript string operations the code     *)
(* uses (endsWith, slice, replace of a suffix, toLowerCase, the default    *)
(* sort order) are defined below by what they do on characters.            *)
(***************************************************************************)
EXTENDS Naturals, Sequences, FiniteSets, TLC

VARIABLES
    files,       \* the page-source tree: the set of file paths under pagesDir
    zen,         \* per page source: the number of script and of style slots parseZen finds
    distExists,  \* whether the output root exists on disk
    dist,        \* the output tree: file path -> content
    pages,       \* build.ts: the result of discoverPages of the running batch
    next,        \* build.ts: index in pages of the next page to compile
    pc,          \* build.ts: "idle" | "building" | "done"
    builds,      \* number of batch builds completed
    route,       \* build loop: the route of the page compiled last
    outputFile,  \* emit: the output file name derived from that route
    emitted,     \* files written since the running batch started
    firstTree,   \* the output tree as the first completed batch left it
    request,     \* serve.ts: url.pathname of the request served last
    filePath,    \* serve.ts: the file chosen for that request
    source,      \* a page source as parse5 reads it: its nodes in document order
    bindings,    \* whether the page has text bindings, and attribute bindings
    split,       \* what splitZen returned for source when it was last called
    assembled,   \* what compile handed to emit: the assembled scripts
    dom,         \* the loaded page: its elements in document order
    parentElement, \* the loaded page: per element the index of its parent, 0 for none
    window,      \* the global object: per name what is registered under it
    listeners,   \* the listeners of document, in the order they were added
    event,       \* the event dispatched last
    invoked,     \* the handler calls made while that event was dispatched
    raised       \* whether a listener raised while that event was dispatched

buildVars == <<files, zen, distExists, dist, pages, next, pc, builds, route,
               outputFile, emitted, firstTree>>
serveVars == <<request, filePath>>
pageVars == <<source, bindings, split, assembled>>

domVars == <<dom, parentElement, window, listeners, event, invoked, raised>>

vars == <<buildVars, serveVars, pageVars, domVars>>

----------------------------------------------------------------------------
(* Bounds *)

MaxFiles == 2      \* files in the page-source tree of a batch build
MaxDepth == 2      \* path segments of a page source (single-page builds)
MaxSlots == 1      \* script slots, and style slots, of a page
MaxBuilds == 2     \* batch builds run one after the other
MaxBlocks == 2     \* nodes of a page source that is compiled
MaxAttrs == 2      \* attributes of an element

----------------------------------------------------------------------------
(* JavaScript string operations *)

NoPath == "<none>"

startsWith(s, prefix) ==
    /\ Len(s) >= Len(prefix)
    /\ SubSeq(s, 1, Len(prefix)) = prefix

endsWith(s, suffix) ==
    /\ Len(s) >= Len(suffix)
    /\ SubSeq(s, Len(s) - Len(suffix) + 1, Len(s)) = suffix

\* s.slice(from): the tail of s from 0-based index from
sliceFrom(s, from) == SubSeq(s, from + 1, Len(s))

\* s.slice(0, -k): s without its last k characters
sliceDropLast(s, k) == IF Len(s) > k THEN SubSeq(s, 1, Len(s) - k) ELSE ""

\* s.replace(/<suffix>$/, "") for a literal suffix
stripSuffix(s, suffix) ==
    IF endsWith(s, suffix) THEN SubSeq(s, 1, Len(s) - Len(suffix)) ELSE s

----------------------------------------------------------------------------
(* playground/build.ts (design document, section 5.2) *)

pagesDir == "pages"
outDir == "dist"

\* path.relative(pagesDir, filePath) for a file below pagesDir
relative(base, path) ==
    IF startsWith(path, base \o "/")
    THEN sliceFrom(path, Len(base) + 1)
    ELSE path

filePathToRouteSlice5(path, base) ==
    LET withoutExt == stripSuffix(relative(base, path), ".zen")
    IN  IF withoutExt = "index" THEN "/"
        ELSE IF endsWith(withoutExt, "/index")
             THEN "/" \o sliceDropLast(withoutExt, 5)
             ELSE "/" \o withoutExt

filePathToRoute(path, base) ==
    LET withoutExt == stripSuffix(relative(base, path), ".zen")
    IN  IF withoutExt = "index" THEN "/"
        ELSE IF endsWith(withoutExt, "/index")
             THEN "/" \o sliceDropLast(withoutExt, 6)
             ELSE "/" \o withoutExt

\* path.join(dir, name)
join(dir, name) == dir \o "/" \o name

\* s.indexOf(ch) + 1 for a one-character ch: 0 when ch does not occur
indexOf(s, ch) ==
    LET hits == {i \in 1..Len(s) : SubSeq(s, i, i) = ch}
    IN  IF hits = {} THEN 0 ELSE CHOOSE i \in hits : \A j \in hits : i <= j

\* fs.readdirSync(dir): the names of the entries of dir, as a set (the order
\* in which the file system returns them is not specified)
readdir(dir) ==
    {LET rest == sliceFrom(f, Len(dir) + 1)
         cut == indexOf(rest, "/")
     IN  IF cut = 0 THEN rest ELSE SubSeq(rest, 1, cut - 1) :
        f \in {g \in files : startsWith(g, dir \o "/")}}

isDirectory(path) == \E f \in files : startsWith(f, path \o "/")
isFile(path) == path \in files

\* every order in which the entries of a directory can be returned
Orders(S) ==
    {o \in [1..Cardinality(S) -> S] : \A i, j \in DOMAIN o : o[i] = o[j] => i = j}

RECURSIVE discoverPages(_)
RECURSIVE discoverEntries(_, _)

\* the for loop of discoverPages over the entries in one order: every
\* result it can return
discoverEntries(dir, entries) ==
    IF entries = <<>> THEN {<<>>}
    ELSE LET fullPath == join(dir, Head(entries))
             found == IF isDirectory(fullPath) THEN discoverPages(fullPath)
                      ELSE IF isFile(fullPath) /\ endsWith(Head(entries), ".zen")
                           THEN {<<fullPath>>}
                           ELSE {<<>>}
         IN  {h \o t : h \in found, t \in discoverEntries(dir, Tail(entries))}

discoverPages(dir) ==
    UNION {discoverEntries(dir, o) : o \in Orders(readdir(dir))}

----------------------------------------------------------------------------
(* compiler/emit.ts and compiler/index.ts *)

EmptyTree == [f \in {} |-> [kind |-> "none", src |-> "", index |-> 0]]

\* a sequence of fs.writeFileSync calls, in order: a file holds what was
\* written to it last
WriteAll(tree, writes) ==
    LET written == {writes[i].path : i \in DOMAIN writes}
        last(f) == CHOOSE i \in DOMAIN writes :
                       /\ writes[i].path = f
                       /\ \A j \in DOMAIN writes : writes[j].path = f => j <= i
    IN  [f \in DOMAIN tree \cup written |->
            IF f \in written THEN writes[last(f)].content ELSE tree[f]]

\* emit: the output file name derived from the route
emitOutputFile(r) ==
    IF r = "/" THEN "index.html" ELSE sliceFrom(r, 1) \o ".html"

\* the fs.writeFileSync calls of emit, in order: the HTML document at
\* outputName under the output root, then script-<i>.js for every script
\* and style-<i>.css for every style, under the output root too
emitWrites(out, outputName, outputDoc, scripts, styles) ==
    <<[path |-> join(out, outputName), content |-> outputDoc]>>
    \o [i \in DOMAIN scripts |->
          [path |-> join(out, "script-" \o ToString(i - 1) \o ".js"),
           content |-> scripts[i]]]
    \o [i \in DOMAIN styles |->
          [path |-> join(out, "style-" \o ToString(i - 1) \o ".css"),
           content |-> styles[i]]]

\* the references emit injects into the document: one script tag per script
\* index, one stylesheet link per style index
scriptTags(i) == "./script-" \o ToString(i) \o ".js"
styleLinks(i) == "./style-" \o ToString(i) \o ".css"

\* path.dirname
dirname(path) ==
    LET cuts == {i \in 1..Len(path) : SubSeq(path, i, i) = "/"}
    IN  IF cuts = {} THEN "."
        ELSE SubSeq(path, 1, (CHOOSE i \in cuts : \A j \in cuts : j <= i) - 1)

\* the file a "./<name>" reference of the document at htmlPath stands for
resolveReference(htmlPath, reference) ==
    join(dirname(htmlPath), sliceFrom(reference, 2))

\* emit of compiler/emit.ts: the document is always written to index.html
emit(tree, out, outputDoc, scripts, styles) ==
    WriteAll(tree, emitWrites(out, "index.html", outputDoc, scripts, styles))

\* emit with the route parameter of the design document
emitRoute(tree, out, outputDoc, scripts, styles, r) ==
    WriteAll(tree, emitWrites(out, emitOutputFile(r), outputDoc, scripts, styles))

\* In the batch build the payloads are opaque and told apart by their page
\* source: the HTML document emit writes for a page, its i-th assembled
\* script and its i-th style.
outputHTML(entry) == [kind |-> "html", src |-> entry, index |-> 0]
scriptContent(entry, i) == [kind |-> "script", src |-> entry, index |-> i]
styleContent(entry, i) == [kind |-> "style", src |-> entry, index |-> i]

scriptsOf(entry) == [i \in 1..zen[entry].scripts |-> scriptContent(entry, i - 1)]
stylesOf(entry) == [i \in 1..zen[entry].styles |-> styleContent(entry, i - 1)]

\* fs.rmSync(outDir, { recursive: true, force: true }) when outDir exists
removeIfExists(tree, exists) == IF exists THEN EmptyTree ELSE tree

\* compile(entry, outDir, route): the output root is deleted when it
\* exists, then the page is parsed, split, assembled and emitted
compile(tree, exists, entry, out, r) ==
    emitRoute(removeIfExists(tree, exists), out, outputHTML(entry),
              scriptsOf(entry), stylesOf(entry), r)

----------------------------------------------------------------------------
(* playground/serve.ts (design document, section 5.2) *)

\* fs.existsSync(path): a file of the tree, or a directory holding one
existsSync(tree, path) ==
    \E f \in DOMAIN tree : f = path \/ startsWith(f, path \o "/")

StaticExtensions == {"js", "css", "ico", "png", "jpg", "svg"}

\* url.pathname.match(/\.(js|css|ico|png|jpg|svg)$/)
isStaticAsset(pathname) ==
    \E ext \in StaticExtensions : endsWith(pathname, "." \o ext)

resolveIndexFirst(tree, pathname) ==
    IF isStaticAsset(pathname) THEN outDir \o pathname
    ELSE IF pathname = "/" THEN outDir \o "/index.html"
    ELSE LET htmlPath == outDir \o pathname \o ".html"
             indexPath == outDir \o pathname \o "/index.html"
         IN  IF existsSync(tree, indexPath) THEN indexPath
             ELSE IF existsSync(tree, htmlPath) THEN htmlPath
             ELSE outDir \o "/index.html"

resolveNoFallback(tree, pathname) ==
    IF isStaticAsset(pathname) THEN outDir \o pathname
    ELSE IF pathname = "/" THEN outDir \o "/index.html"
    ELSE LET htmlPath == outDir \o pathname \o ".html"
             indexPath == outDir \o pathname \o "/index.html"
         IN  IF existsSync(tree, htmlPath) THEN htmlPath
             ELSE IF existsSync(tree, indexPath) THEN indexPath
             ELSE outDir \o pathname

\* the file the fetch handler serves for url.pathname
resolve(tree, pathname) ==
    IF isStaticAsset(pathname) THEN outDir \o pathname
    ELSE IF pathname = "/" THEN outDir \o "/index.html"
    ELSE LET htmlPath == outDir \o pathname \o ".html"
             indexPath == outDir \o pathname \o "/index.html"
         IN  IF existsSync(tree, htmlPath) THEN htmlPath
             ELSE IF existsSync(tree, indexPath) THEN indexPath
             ELSE outDir \o "/index.html"

----------------------------------------------------------------------------
(* The batch build *)

SourceUniverse ==
    { "pages/index.zen", "pages/about.zen", "pages/blog/index.zen",
      "pages/blog/post.zen", "pages/about/index.zen", "pages/index/index.zen",
      "pages/reindex.zen", "pages/app.js.zen", "pages/notes.txt" }

PageSources(fileSet) == {f \in fileSet : endsWith(f, ".zen")}

SlotCounts == [scripts : 0..MaxSlots, styles : 0..MaxSlots]

NoResult == [ok |-> FALSE]

NoEvent == [type |-> "", target |-> [node |-> "null", index |-> 0]]

\* no page is loaded in a browser
DomIdle ==
    /\ dom = <<>>
    /\ parentElement = <<>>
    /\ window = [name \in {} |-> "undefined"]
    /\ listeners = <<>>
    /\ event = NoEvent
    /\ invoked = <<>>
    /\ raised = FALSE

\* no page is being compiled on its own
PageIdle ==
    /\ source = <<>>
    /\ bindings = [text |-> FALSE, attr |-> FALSE]
    /\ split = NoResult
    /\ assembled = NoResult

InitWith(fileSets) ==
    /\ PageIdle
    /\ DomIdle
    /\ files \in fileSets
    /\ zen \in [PageSources(files) -> SlotCounts]
    /\ distExists = FALSE
    /\ dist = EmptyTree
    /\ pages = <<>>
    /\ next = 1
    /\ pc = "idle"
    /\ builds = 0
    /\ route = NoPath
    /\ outputFile = NoPath
    /\ emitted = {}
    /\ firstTree = EmptyTree
    /\ request = NoPath
    /\ filePath = NoPath

Init == InitWith({S \in SUBSET SourceUniverse : Cardinality(S) <= MaxFiles})

\* const pages = discoverPages(pagesDir)
Discover ==
    /\ pc \in {"idle", "done"}
    /\ builds < MaxBuilds
    /\ pages' \in discoverPages(pagesDir)
    /\ next' = 1
    /\ pc' = "building"
    /\ emitted' = {}
    /\ UNCHANGED <<files, zen, distExists, dist, builds, route, outputFile,
                   firstTree, serveVars, pageVars, domVars>>

\* one iteration of: for (const pagePath of pages) { ... compile(...) }
CompilePage ==
    /\ pc = "building"
    /\ next <= Len(pages)
    /\ LET pagePath == pages[next]
           r == filePathToRoute(pagePath, pagesDir)
       IN  /\ route' = r
           /\ outputFile' = emitOutputFile(r)
           /\ dist' = compile(dist, distExists, pagePath, outDir, r)
           /\ emitted' = emitted \cup
                  LET writes == emitWrites(outDir, emitOutputFile(r),
                                    outputHTML(pagePath), scriptsOf(pagePath),
                                    stylesOf(pagePath))
                  IN  {writes[i].path : i \in DOMAIN writes}
    /\ distExists' = TRUE
    /\ next' = next + 1
    /\ UNCHANGED <<files, zen, pages, pc, builds, firstTree, serveVars, pageVars, domVars>>

\* the loop has run through pages: the batch is complete
Finish ==
    /\ pc = "building"
    /\ next > Len(pages)
    /\ pc' = "done"
    /\ builds' = builds + 1
    /\ firstTree' = IF builds = 0 THEN dist ELSE firstTree
    /\ UNCHANGED <<files, zen, distExists, dist, pages, next, route,
                   outputFile, emitted, serveVars, pageVars, domVars>>

Next == Discover \/ CompilePage \/ Finish

Spec == Init /\ [][Next]_vars

----------------------------------------------------------------------------
(* Single-page builds over every page path of up to MaxDepth segments *)

Segments == {"index", "about", "blog", "post", "reindex", "app.js"}

RECURSIVE PathsOfDepth(_)
PathsOfDepth(d) ==
    IF d = 0 THEN {}
    ELSE IF d = 1 THEN Segments
    ELSE {join(dir, name) : dir \in PathsOfDepth(d - 1), name \in Segments}

RoutePaths ==
    {join(pagesDir, rel \o ".zen") :
        rel \in UNION {PathsOfDepth(d) : d \in 1..MaxDepth}}

InitRoute == InitWith({{f} : f \in RoutePaths})

SpecRoute == InitRoute /\ [][Next]_vars

----------------------------------------------------------------------------
(* The development server over an arbitrary output tree *)

ServeFiles ==
    { "dist/index.html", "dist/about.html", "dist/about/index.html",
      "dist/blog/index.html", "dist/app.js", "dist/script-0.js" }

Pathnames ==
    { "/", "/about", "/blog", "/blog/post", "/unknown", "/app.js",
      "/missing.css", "/script-0.js", "/index" }

TreeOf(fileSet) == [f \in fileSet |-> [kind |-> "file", src |-> f, index |-> 0]]

InitServe ==
    /\ PageIdle
    /\ DomIdle
    /\ files = {}
    /\ zen = [f \in {} |-> [scripts |-> 0, styles |-> 0]]
    /\ distExists = TRUE
    /\ dist \in {TreeOf(S) : S \in SUBSET ServeFiles}
    /\ pages = <<>>
    /\ next = 1
    /\ pc = "idle"
    /\ builds = 0
    /\ route = NoPath
    /\ outputFile = NoPath
    /\ emitted = {}
    /\ firstTree = EmptyTree
    /\ request = NoPath
    /\ filePath = NoPath

\* fetch(req): the route resolution of one request
Fetch(pathname) ==
    /\ request' = pathname
    /\ filePath' = resolve(dist, pathname)
    /\ UNCHANGED <<buildVars, pageVars, domVars>>

NextServe == \E pathname \in Pathnames : Fetch(pathname)

SpecServe == InitServe /\ [][NextServe]_vars

----------------------------------------------------------------------------
(* JavaScript strings: case and order *)

UpperCase == "ABCDEFGHIJKLMNOPQRSTUVWXYZ"
LowerCase == "abcdefghijklmnopqrstuvwxyz"

\* ch.toLowerCase() for one character
lowerChar(ch) ==
    LET i == indexOf(UpperCase, ch)
    IN  IF i = 0 THEN ch ELSE SubSeq(LowerCase, i, i)

RECURSIVE toLowerCase(_)
toLowerCase(s) ==
    IF s = "" THEN "" ELSE lowerChar(SubSeq(s, 1, 1)) \o toLowerCase(sliceFrom(s, 1))

\* the UTF-16 code unit of a letter, a digit-free ASCII name character
charCode(ch) ==
    LET u == indexOf(UpperCase, ch)
        l == indexOf(LowerCase, ch)
    IN  IF u > 0 THEN 64 + u ELSE IF l > 0 THEN 96 + l ELSE 45

RECURSIVE lessThan(_, _)
\* a < b for strings: by code units, a proper prefix first
lessThan(a, b) ==
    IF b = "" THEN FALSE
    ELSE IF a = "" THEN TRUE
    ELSE LET ca == charCode(SubSeq(a, 1, 1))
             cb == charCode(SubSeq(b, 1, 1))
         IN  IF ca # cb THEN ca < cb
             ELSE lessThan(sliceFrom(a, 1), sliceFrom(b, 1))

RECURSIVE insertSorted(_, _)
insertSorted(sorted, x) ==
    IF sorted = <<>> THEN <<x>>
    ELSE IF lessThan(x, Head(sorted)) THEN <<x>> \o sorted
    ELSE <<Head(sorted)>> \o insertSorted(Tail(sorted), x)

RECURSIVE sort(_)
\* Array.prototype.sort() with the default comparison
sort(seq) ==
    IF seq = <<>> THEN <<>>
    ELSE insertSorted(sort(SubSeq(seq, 1, Len(seq) - 1)), seq[Len(seq)])

Range(seq) == {seq[i] : i \in DOMAIN seq}

\* Set.prototype.add on a set kept in insertion order
setAdd(set, x) == IF x \in Range(set) THEN set ELSE Append(set, x)

----------------------------------------------------------------------------
(* parse5 and compiler/parse.ts *)

\* A page source is the sequence of its nodes in document order; a node is
\* [nodeName, attrs, text], attrs a sequence of [name, value], text the
\* node's text content ("" for a node without child nodes).

RECURSIVE parseAttrs(_, _)
\* the attributes of a start tag as the HTML tokenizer yields them: names
\* lower-cased, a repeated name dropped
parseAttrs(attrs, seen) ==
    IF attrs = <<>> THEN <<>>
    ELSE LET name == toLowerCase(Head(attrs).name)
         IN  IF name \in seen THEN parseAttrs(Tail(attrs), seen)
             ELSE <<[name |-> name, value |-> Head(attrs).value]>>
                  \o parseAttrs(Tail(attrs), seen \cup {name})

\* parse5.parse(html)
parse(html) ==
    [i \in DOMAIN html |->
        [nodeName |-> html[i].nodeName,
         attrs |-> parseAttrs(html[i].attrs, {}),
         text |-> html[i].text]]

\* the scripts (what == "script") or styles (what == "style") parseZen's
\* walk collects: the nodes of that name that have child nodes
blocksOf(document, what) ==
    LET found == SelectSeq(document,
                     LAMBDA node : node.nodeName = what /\ node.text # "")
    IN  [i \in DOMAIN found |-> [content |-> found[i].text, index |-> i - 1]]

parseZen(src) ==
    [html |-> src,
     scripts |-> blocksOf(parse(src), "script"),
     styles |-> blocksOf(parse(src), "style")]

----------------------------------------------------------------------------
(* compiler/split.ts *)

RECURSIVE mapAttrsAnyOn(_, _)
\* a rewrite that takes every name starting with "on" for an event handler
mapAttrsAnyOn(attrs, eventTypes) ==
    IF attrs = <<>> THEN [attrs |-> <<>>, eventTypes |-> eventTypes]
    ELSE LET attr == Head(attrs)
             attrName == toLowerCase(attr.name)
             isEvent == startsWith(attrName, "on")
             eventType == sliceFrom(attrName, 2)
             rest == mapAttrsAnyOn(Tail(attrs),
                         IF isEvent THEN setAdd(eventTypes, eventType)
                         ELSE eventTypes)
         IN  [attrs |->
                 <<IF isEvent
                   THEN [name |-> "data-zen-" \o eventType, value |-> attr.value]
                   ELSE attr>> \o rest.attrs,
              eventTypes |-> rest.eventTypes]

RECURSIVE mapAttrs(_, _)
\* node.attrs.map(...) of walk: the rewritten attributes, and the event
\* types with those of these attributes added
mapAttrs(attrs, eventTypes) ==
    IF attrs = <<>> THEN [attrs |-> <<>>, eventTypes |-> eventTypes]
    ELSE LET attr == Head(attrs)
             attrName == toLowerCase(attr.name)
             isEvent == startsWith(attrName, "on") /\ Len(attrName) > 2
             eventType == sliceFrom(attrName, 2)
             rest == mapAttrs(Tail(attrs),
                         IF isEvent THEN setAdd(eventTypes, eventType)
                         ELSE eventTypes)
         IN  [attrs |->
                 <<IF isEvent
                   THEN [name |-> "data-zen-" \o eventType, value |-> attr.value]
                   ELSE attr>> \o rest.attrs,
              eventTypes |-> rest.eventTypes]

RECURSIVE walk(_, _)
walk(nodes, eventTypes) ==
    IF nodes = <<>> THEN [nodes |-> <<>>, eventTypes |-> eventTypes]
    ELSE LET node == Head(nodes)
             mapped == mapAttrs(node.attrs, eventTypes)
             rest == walk(Tail(nodes), mapped.eventTypes)
         IN  [nodes |-> <<[node EXCEPT !.attrs = mapped.attrs]>> \o rest.nodes,
              eventTypes |-> rest.eventTypes]

transformEventAttributes(html) ==
    LET walked == walk(parse(html), <<>>)
    IN  [transformedHtml |-> walked.nodes, eventTypes |-> walked.eventTypes]

stripScriptAndStyleTags(html) ==
    SelectSeq(html, LAMBDA node : node.nodeName \notin {"script", "style"})

splitZenUnsorted(file) ==
    LET transformed == transformEventAttributes(file.html)
    IN  [ok |-> TRUE,
         html |-> stripScriptAndStyleTags(transformed.transformedHtml),
         scripts |-> [i \in DOMAIN file.scripts |-> file.scripts[i].content],
         styles |-> [i \in DOMAIN file.styles |-> file.styles[i].content],
         eventTypes |-> transformed.eventTypes]

splitZen(file) ==
    LET transformed == transformEventAttributes(file.html)
    IN  [ok |-> TRUE,
         html |-> stripScriptAndStyleTags(transformed.transformedHtml),
         scripts |-> [i \in DOMAIN file.scripts |-> file.scripts[i].content],
         styles |-> [i \in DOMAIN file.styles |-> file.styles[i].content],
         eventTypes |-> sort(transformed.eventTypes)]

----------------------------------------------------------------------------
(* compiler/event.ts and the script assembly of compile *)

\* A script text is a sequence of fragments; "" is the empty sequence and
\* string concatenation is \o.
Fragment(kind, arg) == [frag |-> kind, arg |-> arg]

\* the "\n\n" compile puts between two fragments
Separator == <<Fragment("separator", <<>>)>>

\* a user script body: opaque text
UserScript(content) == <<Fragment("user", <<content>>)>>

\* the runtime text: the helpers, delegate, and the listeners of eventTypes
generateEventBindingRuntime(eventTypes) == <<Fragment("event", eventTypes)>>

\* generateBindingRuntime(stateBindings, stateDeclarations)
generateBindingRuntime(has) ==
    IF has THEN <<Fragment("text-binding", <<>>)>> ELSE <<>>

\* generateAttributeBindingRuntime(bindings)
generateAttributeBindingRuntime(has) ==
    IF has THEN <<Fragment("attribute-binding", <<>>)>> ELSE <<>>

\* compiler/index.ts: scripts.map(s => ...)
scriptsWithEvents(scripts, eventTypes) ==
    LET runtimeSnippet == generateEventBindingRuntime(eventTypes)
    IN  [i \in DOMAIN scripts |->
            IF runtimeSnippet # <<>>
            THEN UserScript(scripts[i]) \o Separator \o runtimeSnippet
            ELSE UserScript(scripts[i])]

\* the later compile: scripts.map((s, index) => ...)
scriptsWithRuntime(scripts, eventTypes, hasText, hasAttr) ==
    LET eventRuntime == generateEventBindingRuntime(eventTypes)
        bindingRuntime == generateBindingRuntime(hasText)
        attributeBindingRuntime == generateAttributeBindingRuntime(hasAttr)
    IN  [i \in DOMAIN scripts |->
            (IF bindingRuntime # <<>> THEN bindingRuntime \o Separator ELSE <<>>)
            \o (IF attributeBindingRuntime # <<>>
                THEN attributeBindingRuntime \o Separator ELSE <<>>)
            \o UserScript(scripts[i])
            \o (IF eventRuntime # <<>> /\ i - 1 = 0
                THEN Separator \o eventRuntime ELSE <<>>)]

----------------------------------------------------------------------------
(* Compiling one page *)

BuildIdle ==
    /\ files = {}
    /\ zen = [f \in {} |-> [scripts |-> 0, styles |-> 0]]
    /\ distExists = FALSE
    /\ dist = EmptyTree
    /\ pages = <<>>
    /\ next = 1
    /\ pc = "idle"
    /\ builds = 0
    /\ route = NoPath
    /\ outputFile = NoPath
    /\ emitted = {}
    /\ firstTree = EmptyTree

ServeIdle ==
    /\ request = NoPath
    /\ filePath = NoPath

Element(name, attrs) == [nodeName |-> name, attrs |-> attrs, text |-> ""]
Block(name, text) == [nodeName |-> name, attrs |-> <<>>, text |-> text]

SeqsUpTo(S, n) == UNION {[1..k -> S] : k \in 0..n}

CompileNodes ==
    { Block("script", "alert(1)"), Block("script", "init()"),
      Block("script", ""), Block("style", "p{}"),
      Element("button", <<[name |-> "onclick", value |-> "foo"]>>),
      Element("input", <<[name |-> "onblur", value |-> "bar"]>>) }

InitCompile ==
    /\ BuildIdle
    /\ ServeIdle
    /\ DomIdle
    /\ source \in SeqsUpTo(CompileNodes, MaxBlocks)
    /\ bindings \in [text : BOOLEAN, attr : BOOLEAN]
    /\ split = NoResult
    /\ assembled = NoResult

\* the document emit writes: the split HTML with the favicon link, one
\* stylesheet link per style and one script tag per script
pageDocument(html, scripts, styles) ==
    [kind |-> "html", body |-> html,
     styleLinks |-> Len(styles), scriptTags |-> Len(scripts)]

\* compile of compiler/index.ts
CompileEvents ==
    /\ split' = splitZen(parseZen(source))
    /\ assembled' =
          [ok |-> TRUE,
           compiler |-> "scriptsWithEvents",
           userScripts |-> split'.scripts,
           bindingRuntime |-> <<>>,
           attributeBindingRuntime |-> <<>>,
           eventRuntime |-> generateEventBindingRuntime(split'.eventTypes),
           scripts |-> scriptsWithEvents(split'.scripts, split'.eventTypes)]
    /\ dist' = emit(dist, outDir,
                    pageDocument(split'.html, assembled'.scripts, split'.styles),
                    assembled'.scripts, split'.styles)
    /\ distExists' = TRUE
    /\ UNCHANGED <<files, zen, pages, next, pc, builds, route, outputFile,
                   emitted, firstTree, serveVars, source, bindings, domVars>>

\* the later compile: the output root is deleted, the components are
\* inlined (processComponents, which leaves a page without components as
\* it is), and the binding runtimes precede the user script
CompileRuntime ==
    /\ split' = splitZen(parseZen(source))
    /\ assembled' =
          [ok |-> TRUE,
           compiler |-> "scriptsWithRuntime",
           userScripts |-> split'.scripts,
           bindingRuntime |-> generateBindingRuntime(bindings.text),
           attributeBindingRuntime |->
               generateAttributeBindingRuntime(bindings.attr),
           eventRuntime |-> generateEventBindingRuntime(split'.eventTypes),
           scripts |-> scriptsWithRuntime(split'.scripts, split'.eventTypes,
                                          bindings.text, bindings.attr)]
    /\ dist' = emit(removeIfExists(dist, distExists), outDir,
                    pageDocument(split'.html, assembled'.scripts, split'.styles),
                    assembled'.scripts, split'.styles)
    /\ distExists' = TRUE
    /\ UNCHANGED <<files, zen, pages, next, pc, builds, route, outputFile,
                   emitted, firstTree, serveVars, source, bindings, domVars>>

NextCompile == CompileEvents \/ CompileRuntime

SpecCompile == InitCompile /\ [][NextCompile]_vars

----------------------------------------------------------------------------
(* Splitting a page source, and editing it *)

AttrUniverse ==
    { [name |-> "onclick", value |-> "foo"], [name |-> "onClick", value |-> "bar"],
      [name |-> "onblur", value |-> "baz"], [name |-> "on", value |-> "x"],
      [name |-> "id", value |-> "main"] }

\* the spellings an edit can give an attribute name
AttrNames ==
    {"onclick", "onClick", "ONCLICK", "onblur", "OnBlur", "onchange", "on", "id"}

Buttons == {Element("button", attrs) : attrs \in SeqsUpTo(AttrUniverse, MaxAttrs)}

\* a button alone, a button before a script, a button after an input
SplitSources ==
    {<<button>> : button \in Buttons}
    \cup {<<button, Block("script", "alert(1)")>> : button \in Buttons}
    \cup {<<Element("input", <<[name |-> "onchange", value |-> "qux"]>>), button>> :
             button \in Buttons}

InitSplit ==
    /\ BuildIdle
    /\ ServeIdle
    /\ DomIdle
    /\ source \in SplitSources
    /\ bindings = [text |-> FALSE, attr |-> FALSE]
    /\ split = NoResult
    /\ assembled = NoResult

\* two neighbouring attributes of one element change places
Reorder ==
    /\ \E n \in DOMAIN source : \E k \in 1..(Len(source[n].attrs) - 1) :
        /\ source[n].attrs[k] # source[n].attrs[k + 1]
        /\ source' = [source EXCEPT ![n].attrs =
                         [@ EXCEPT ![k] = source[n].attrs[k + 1],
                                   ![k + 1] = source[n].attrs[k]]]
    /\ UNCHANGED <<buildVars, serveVars, bindings, split, assembled, domVars>>

\* the name of an on<word> attribute changes letter case
Recase ==
    /\ \E n \in DOMAIN source : \E k \in DOMAIN source[n].attrs :
         \E name \in AttrNames :
            /\ name # source[n].attrs[k].name
            /\ toLowerCase(name) = toLowerCase(source[n].attrs[k].name)
            /\ startsWith(toLowerCase(name), "on")
            /\ Len(name) > 2
            /\ source' = [source EXCEPT ![n].attrs[k].name = name]
    /\ UNCHANGED <<buildVars, serveVars, bindings, split, assembled, domVars>>

\* splitZen(parseZen(entry)) on the page source as it is now
Split ==
    /\ split' = splitZen(parseZen(source))
    /\ UNCHANGED <<buildVars, serveVars, source, bindings, assembled, domVars>>

NextSplit == Reorder \/ Recase \/ Split

SpecSplit == InitSplit /\ [][NextSplit]_vars

----------------------------------------------------------------------------
(* The event runtime in the browser: compiler/event.ts *)

\* A node an event can name as its target: an element of the page, by its
\* index in dom, the document, or null.
ElementAt(i) == [node |-> "element", index |-> i]
Document == [node |-> "document", index |-> 0]
Null == [node |-> "null", index |-> 0]

\* el.hasAttribute(name), el.getAttribute(name), for an element
hasAttribute(el, name) ==
    \E k \in DOMAIN dom[el.index].attrs : dom[el.index].attrs[k].name = name

getAttribute(el, name) ==
    LET attrs == dom[el.index].attrs
    IN  attrs[CHOOSE k \in DOMAIN attrs : attrs[k].name = name].value

\* el.parentElement, for an element: null for an element without a parent
\* element
parentOf(el) ==
    IF parentElement[el.index] = 0 THEN Null
    ELSE ElementAt(parentElement[el.index])

RECURSIVE delegateWalk(_, _)
\* while (el && !el.hasAttribute(`data-zen-${type}`)) el = el.parentElement
\* the value of el after the loop; the document is not an element and has
\* no hasAttribute: calling it raises a TypeError
delegateWalk(el, type) ==
    IF el = Null THEN [raised |-> FALSE, el |-> Null]
    ELSE IF el = Document THEN [raised |-> TRUE, el |-> Document]
    ELSE IF hasAttribute(el, "data-zen-" \o type) THEN [raised |-> FALSE, el |-> el]
    ELSE delegateWalk(parentOf(el), type)

\* function delegate(event): the handler calls it makes, and whether it
\* raises
delegate(ev) ==
    LET walked == delegateWalk(ev.target, ev.type)
        el == walked.el
        handlerName == IF el = Null THEN ""
                       ELSE getAttribute(el, "data-zen-" \o ev.type)
    IN  IF walked.raised THEN [raised |-> TRUE, invoked |-> <<>>]
        ELSE [raised |-> FALSE,
              invoked |->
                  IF handlerName # "" /\ handlerName \in DOMAIN window
                     /\ window[handlerName] = "function"
                  THEN <<[name |-> handlerName, event |-> ev, el |-> el]>>
                  ELSE <<>>]

\* document.addEventListener(type, delegate): a listener already in the
\* list for that type is not added again
addEventListener(ls, type) ==
    IF \E i \in DOMAIN ls : ls[i] = type THEN ls ELSE Append(ls, type)

RECURSIVE forEachAddEventListener(_, _)
\* zenEvents.forEach(type => { document.addEventListener(type, delegate) })
forEachAddEventListener(ls, zenEvents) ==
    IF zenEvents = <<>> THEN ls
    ELSE forEachAddEventListener(addEventListener(ls, Head(zenEvents)),
                                 Tail(zenEvents))

\* the listeners of document once the scripts of the page have run: the
\* event runtime, which compile puts in the first script, attaches delegate
\* to its event types
runScripts(scripts) ==
    LET fragments == IF scripts = <<>> THEN <<>>
                     ELSE SelectSeq(scripts[1], LAMBDA f : f.frag = "event")
    IN  IF fragments = <<>> THEN <<>>
        ELSE forEachAddEventListener(<<>>, fragments[1].arg)

DispatchAttrs ==
    { <<>>,
      <<[name |-> "onclick", value |-> "foo"]>>,
      <<[name |-> "onClick", value |-> ""]>>,
      <<[name |-> "onscroll", value |-> "foo"]>> }

\* a div, a button and a span, then the page's script if it has one
DispatchSources ==
    {<<Element("div", a), Element("button", b), Element("span", c)>> \o script :
        a \in DispatchAttrs, b \in DispatchAttrs, c \in DispatchAttrs,
        script \in {<<>>, <<Block("script", "init()")>>}}

\* the element trees over three elements in document order
DispatchParents ==
    {<<0, p, q>> : p \in {0, 1}, q \in {0, 1, 2}}

\* what the page's own scripts may have registered under the handler names
Registrations == [{"foo", ""} -> {"function", "string", "undefined"}]

EventTypes == {"click", "scroll", "keyup"}

InitDispatch ==
    /\ BuildIdle
    /\ ServeIdle
    /\ source \in DispatchSources
    /\ bindings = [text |-> FALSE, attr |-> FALSE]
    /\ split = NoResult
    /\ assembled = NoResult
    /\ dom = <<>>
    /\ parentElement \in DispatchParents
    /\ window \in Registrations
    /\ listeners = <<>>
    /\ event = NoEvent
    /\ invoked = <<>>
    /\ raised = FALSE

\* the page is compiled, and loaded in a browser: its scripts run
LoadPage ==
    /\ ~split.ok
    /\ split' = splitZen(parseZen(source))
    /\ assembled' =
          [ok |-> TRUE,
           compiler |-> "scriptsWithRuntime",
           userScripts |-> split'.scripts,
           bindingRuntime |-> generateBindingRuntime(bindings.text),
           attributeBindingRuntime |->
               generateAttributeBindingRuntime(bindings.attr),
           eventRuntime |-> generateEventBindingRuntime(split'.eventTypes),
           scripts |-> scriptsWithRuntime(split'.scripts, split'.eventTypes,
                                          bindings.text, bindings.attr)]
    /\ dom' = split'.html
    /\ listeners' = runScripts(assembled'.scripts)
    /\ UNCHANGED <<buildVars, serveVars, source, bindings, parentElement,
                   window, event, invoked, raised>>

\* an event of the given type and target reaches document: the listeners
\* of document for that type are called
Dispatch(type, target) ==
    /\ split.ok
    /\ event' = [type |-> type, target |-> target]
    /\ IF \E i \in DOMAIN listeners : listeners[i] = type
       THEN /\ invoked' = delegate(event').invoked
            /\ raised' = delegate(event').raised
       ELSE /\ invoked' = <<>>
            /\ raised' = FALSE
    /\ UNCHANGED <<buildVars, serveVars, pageVars, dom, parentElement, window,
                   listeners>>

NextDispatch ==
    \/ LoadPage
    \/ \E type \in EventTypes :
         \E target \in {ElementAt(i) : i \in DOMAIN dom} \cup {Document} :
            Dispatch(type, target)

SpecDispatch == InitDispatch /\ [][NextDispatch]_vars

----------------------------------------------------------------------------
(* Properties *)

\* the route patterns derived for the page sources of the tree
PatternOf(page) == filePathToRoute(page, pagesDir)

PatternsDistinct ==
    \A p, q \in PageSources(files) : p # q => PatternOf(p) # PatternOf(q)

\* C1: after a full batch build of page sources whose derived patterns are
\* pairwise distinct, resolving the pattern of each source returns the
\* output file that holds the HTML emitted for that source.
C1_RoundTrip ==
    (pc = "done" /\ PatternsDistinct) =>
        \A p \in PageSources(files) :
            LET f == resolve(dist, PatternOf(p))
            IN  f \in DOMAIN dist /\ dist[f] = outputHTML(p)

\* C2: compiling a page never empties the output root: every file emitted
\* for an earlier page of the running batch is still present after any
\* later page of that batch has been compiled.
C2_EarlierArtifactsKept ==
    pc \in {"building", "done"} => emitted \subseteq DOMAIN dist

\* the page compiled last, once the build loop has compiled one
Compiled == pc # "idle" /\ next > 1
LastPage == pages[next - 1]

\* C3: emit writes the page's HTML at the output path derived from its
\* route: "/" gives index.html, any other route gives the route without
\* its leading slash plus ".html", and "/" -> index.html,
\* "/about" -> about.html, "/blog" -> blog/index.html.
C3_OutputPath ==
    Compiled =>
        /\ join(outDir, outputFile) \in DOMAIN dist
        /\ dist[join(outDir, outputFile)] = outputHTML(LastPage)
        /\ route = "/" => outputFile = "index.html"
        /\ route # "/" => outputFile = SubSeq(route, 2, Len(route)) \o ".html"
        /\ route = "/about" => outputFile = "about.html"
        /\ route = "/blog/post" => outputFile = "blog/post.html"
        /\ route = "/blog" => outputFile = "blog/index.html"

\* the path of a page source relative to pagesDir, its extension stripped
RelativeNoExt(page) ==
    SubSeq(page, Len(pagesDir) + 2, Len(page) - Len(".zen"))

\* C4: filePathToRoute maps the relative path "index" to "/", a path
\* ending in "/index" to "/" plus the prefix before that suffix, any other
\* path to "/" plus the path; every pattern begins with "/"; and
\* index.zen -> "/", about.zen -> "/about", blog/index.zen -> "/blog",
\* blog/post.zen -> "/blog/post".
C4_FilePathToRoute ==
    Compiled =>
        LET rel == RelativeNoExt(LastPage)
            cut == Len(rel) - Len("/index")
            indexLeaf == cut >= 0 /\ SubSeq(rel, cut + 1, Len(rel)) = "/index"
        IN  /\ SubSeq(route, 1, 1) = "/"
            /\ rel = "index" => route = "/"
            /\ (rel # "index" /\ indexLeaf) => route = "/" \o SubSeq(rel, 1, cut)
            /\ (rel # "index" /\ ~indexLeaf) => route = "/" \o rel
            /\ LastPage = "pages/index.zen" => route = "/"
            /\ LastPage = "pages/about.zen" => route = "/about"
            /\ LastPage = "pages/blog/index.zen" => route = "/blog"
            /\ LastPage = "pages/blog/post.zen" => route = "/blog/post"

C4_Witness ==
    /\ Compiled
    /\ LastPage = "pages/blog/index.zen"
    /\ route = "/blog"

\* the requests of Pathnames that carry a static-asset extension
StaticRequests == {"/app.js", "/missing.css", "/script-0.js"}

Present(path) == (outDir \o path) \in DOMAIN dist

\* C5: resolve applies its branches in strict precedence: static-asset
\* extension, then "/", then <pathname>.html if it exists, then
\* <pathname>/index.html if it exists, then the root index.html. /about
\* with about.html present resolves to about.html even if about/index.html
\* exists too; /unknown with neither resolves to the root index.html.
C5_ResolverPrecedence ==
    request # NoPath =>
        /\ filePath =
              IF request \in StaticRequests THEN outDir \o request
              ELSE IF request = "/" THEN "dist/index.html"
              ELSE IF Present(request \o ".html")
                   THEN outDir \o request \o ".html"
              ELSE IF Present(request \o "/index.html")
                   THEN outDir \o request \o "/index.html"
              ELSE "dist/index.html"
        /\ (request = "/about" /\ Present("/about.html"))
               => filePath = "dist/about.html"
        /\ (request = "/unknown" /\ ~Present("/unknown.html")
                /\ ~Present("/unknown/index.html"))
               => filePath = "dist/index.html"

C5_Witness ==
    /\ request = "/about"
    /\ Present("/about.html")
    /\ Present("/about/index.html")
    /\ filePath = "dist/about.html"

\* no file of the output tree answers the pathname: not the file of that
\* path, not <pathname>.html, not <pathname>/index.html
Unmatched(pathname) ==
    /\ ~Present(pathname)
    /\ ~Present(pathname \o ".html")
    /\ ~Present(pathname \o "/index.html")

\* C6 as stated: every pathname that does not correspond to an existing
\* file of the output tree resolves to the root index.html.
C6_UnmatchedFallsBack ==
    (request # NoPath /\ Unmatched(request)) => filePath = "dist/index.html"

\* C6 as amended: every unmatched pathname without a static-asset
\* extension resolves to the root index.html; a pathname with a
\* static-asset extension resolves to the file of the same path under the
\* output root, whether or not that file exists.
C6_UnmatchedPageFallsBack ==
    request # NoPath =>
        /\ (request \notin StaticRequests /\ Unmatched(request))
               => filePath = "dist/index.html"
        /\ request \in StaticRequests => filePath = outDir \o request

C6_Witness ==
    /\ request = "/unknown"
    /\ Unmatched(request)
    /\ Present("/about.html")
    /\ filePath = "dist/index.html"

\* a script text without the separators compile puts between fragments
Fragments(text) == SelectSeq(text, LAMBDA f : f.frag # "separator")

RuntimeKinds == {"text-binding", "attribute-binding", "event"}

\* C7: every assembled script is, in this order, the text-binding runtime
\* (if non-empty), the attribute-binding runtime (if non-empty), the user
\* script body and, only in the first slot, the event-dispatch runtime; no
\* runtime fragment follows the event-dispatch runtime and no binding
\* runtime follows the user script body.
C7_AssemblyOrder ==
    assembled.ok =>
        /\ Len(assembled.scripts) = Len(assembled.userScripts)
        /\ \A i \in DOMAIN assembled.scripts :
            LET text == Fragments(assembled.scripts[i])
            IN  /\ text = assembled.bindingRuntime
                          \o assembled.attributeBindingRuntime
                          \o UserScript(assembled.userScripts[i])
                          \o (IF i = 1 THEN assembled.eventRuntime ELSE <<>>)
                /\ \A j, k \in DOMAIN text :
                     j < k =>
                       /\ text[j].frag = "event" => text[k].frag \notin RuntimeKinds
                       /\ text[j].frag = "user" =>
                            text[k].frag \notin {"text-binding", "attribute-binding"}

\* the number of event-dispatch runtimes in the assembled scripts of a page
RECURSIVE EventRuntimes(_)
EventRuntimes(scripts) ==
    IF scripts = <<>> THEN 0
    ELSE Len(SelectSeq(Head(scripts), LAMBDA f : f.frag = "event"))
         + EventRuntimes(Tail(scripts))

\* C8: whatever the number of script slots of a page, the event-dispatch
\* runtime occurs exactly once across the page's assembled scripts.
C8_EventRuntimeOnce ==
    assembled.ok => EventRuntimes(assembled.scripts) = 1

\* C9: two full batch builds of the same source tree into the same output
\* root leave the same output tree, whatever order each build's traversal
\* of the directories follows.
C9_Idempotent ==
    (pc = "done" /\ builds >= 2) => dist = firstTree

Sorted(seq) == \A i, j \in DOMAIN seq : i < j => lessThan(seq[i], seq[j])

EventKindsOf(html) == splitZen(parseZen(html)).eventTypes

\* C10: the event kinds splitZen returns are sorted ascending and free of
\* duplicates, and they are the same sequence for two page sources that
\* differ only in the order or the letter case of their on<word>
\* attributes.
C10_EventKindsSorted ==
    /\ [](split.ok => Sorted(split.eventTypes))
    /\ [][source' # source => EventKindsOf(source') = EventKindsOf(source)]_vars

C10_Witness ==
    /\ split.ok
    /\ split = splitZen(parseZen(source))
    /\ Len(source) = 1
    /\ Len(source[1].attrs) = 2
    /\ source[1].attrs[1].name = "ONCLICK"
    /\ source[1].attrs[2].name = "OnBlur"
    /\ split.eventTypes = <<"blur", "click">>

\* an attribute whose lower-cased name starts with "on" and is longer than
\* two characters, and the <word> of such an attribute
IsHandlerAttr(attr) ==
    startsWith(toLowerCase(attr.name), "on") /\ Len(attr.name) > 2

WordOf(attr) == sliceFrom(toLowerCase(attr.name), 2)

\* C13: in the document the rewrite walks, every attribute of every element
\* whose lower-cased name starts with "on" and is longer than two
\* characters is replaced, at its position, by data-zen-<word> with the
\* same value, and <word> lower-cased is among the event kinds; every other
\* attribute (one named exactly "on" too) keeps name, value and position;
\* the nodes keep their order, names and text; every event kind comes from
\* such an attribute; and what splitZen returns is built from this rewrite.
C13_RewriteFrame ==
    LET document == parse(source)
        out == transformEventAttributes(source)
        html == out.transformedHtml
    IN  /\ DOMAIN html = DOMAIN document
        /\ \A n \in DOMAIN document :
              /\ html[n].nodeName = document[n].nodeName
              /\ html[n].text = document[n].text
              /\ DOMAIN html[n].attrs = DOMAIN document[n].attrs
              /\ \A k \in DOMAIN document[n].attrs :
                    LET attr == document[n].attrs[k]
                    IN  IF IsHandlerAttr(attr)
                        THEN /\ html[n].attrs[k] =
                                    [name |-> "data-zen-" \o WordOf(attr),
                                     value |-> attr.value]
                             /\ WordOf(attr) \in Range(out.eventTypes)
                        ELSE html[n].attrs[k] = attr
        /\ \A kind \in Range(out.eventTypes) :
              \E n \in DOMAIN document : \E k \in DOMAIN document[n].attrs :
                  /\ IsHandlerAttr(document[n].attrs[k])
                  /\ WordOf(document[n].attrs[k]) = kind
        /\ (split.ok /\ split = splitZen(parseZen(source))) =>
              /\ split.html = stripScriptAndStyleTags(html)
              /\ Range(split.eventTypes) = Range(out.eventTypes)

\* a button with a handler attribute before an attribute named "on" has
\* been split: the handler is rewritten, "on" is kept
C13_Witness ==
    /\ split.ok
    /\ split = splitZen(parseZen(source))
    /\ Len(source) = 1
    /\ source[1].attrs = <<[name |-> "ONCLICK", value |-> "foo"],
                           [name |-> "on", value |-> "x"]>>
    /\ split.html[1].attrs = <<[name |-> "data-zen-click", value |-> "foo"],
                               [name |-> "on", value |-> "x"]>>
    /\ split.eventTypes = <<"click">>

\* the output file of a page's HTML document
HtmlPathOf(page) == join(outDir, emitOutputFile(PatternOf(page)))

\* C12: after a batch build of pages with pairwise-distinct patterns, every
\* ./script-<i>.js and ./style-<j>.css reference of every page's document,
\* resolved against the directory of that document, names a file of the
\* output tree that holds this page's own i-th script, or j-th style.
C12_AssetIsolation ==
    (pc = "done" /\ PatternsDistinct) =>
        \A page \in PageSources(files) :
            /\ \A i \in DOMAIN scriptsOf(page) :
                  LET f == resolveReference(HtmlPathOf(page), scriptTags(i - 1))
                  IN  f \in DOMAIN dist /\ dist[f] = scriptContent(page, i - 1)
            /\ \A j \in DOMAIN stylesOf(page) :
                  LET f == resolveReference(HtmlPathOf(page), styleLinks(j - 1))
                  IN  f \in DOMAIN dist /\ dist[f] = styleContent(page, j - 1)

RECURSIVE InclusiveAncestors(_)
\* an element and its ancestor elements, nearest first
InclusiveAncestors(i) ==
    IF i = 0 THEN <<>> ELSE <<i>> \o InclusiveAncestors(parentElement[i])

HasMarker(i, kind) ==
    \E k \in DOMAIN dom[i].attrs : dom[i].attrs[k].name = "data-zen-" \o kind

\* the nearest element, from the target up, that carries data-zen-<kind>;
\* 0 when there is none
Nearest(target, kind) ==
    IF target.node # "element" THEN 0
    ELSE LET marked == SelectSeq(InclusiveAncestors(target.index),
                                 LAMBDA i : HasMarker(i, kind))
         IN  IF marked = <<>> THEN 0 ELSE marked[1]

MarkerValue(i, kind) ==
    LET attrs == dom[i].attrs
    IN  attrs[CHOOSE k \in DOMAIN attrs : attrs[k].name = "data-zen-" \o kind].value

Registered(name) == name \in DOMAIN window /\ window[name] = "function"

\* what the dispatch of the last event must have done
Dispatched ==
    LET m == Nearest(event.target, event.type)
    IN  IF m # 0 /\ Registered(MarkerValue(m, event.type))
        THEN invoked = <<[name |-> MarkerValue(m, event.type),
                          event |-> event, el |-> ElementAt(m)]>>
        ELSE invoked = <<>> /\ ~raised

\* C11: on a loaded page document has exactly one listener for every event
\* kind of the page's event-kind sequence and none for another kind; and an
\* event of such a kind, whatever its target, makes one call, of the
\* function registered under the value of the nearest data-zen-<kind>
\* marker from the target up, with the event and the marked element, or,
\* when there is no such marker or no function under that name, makes no
\* call and raises nothing.
C11_Dispatcher ==
    split.ok =>
        /\ \A kind \in EventTypes \cup Range(split.eventTypes) :
              Cardinality({i \in DOMAIN listeners : listeners[i] = kind})
                  = IF kind \in Range(split.eventTypes) THEN 1 ELSE 0
        /\ (event # NoEvent /\ event.type \in Range(split.eventTypes)) =>
              Dispatched

\* the same for a page that has a script, events whose target is an
\* element and markers whose value is not empty: this much holds
DelegateOnElements ==
    (split.ok /\ split.scripts # <<>>) =>
        /\ \A kind \in EventTypes \cup Range(split.eventTypes) :
              Cardinality({i \in DOMAIN listeners : listeners[i] = kind})
                  = IF kind \in Range(split.eventTypes) THEN 1 ELSE 0
        /\ ( /\ event # NoEvent
             /\ event.target.node = "element"
             /\ Nearest(event.target, event.type) # 0
                  => MarkerValue(Nearest(event.target, event.type),
                                 event.type) # "" )
           => Dispatched

====
